---- MODULE Spec2Model ----
(***************************************************************************)
(* Model of the session middleware axum_session_runner (src/manager.rs).   *)
(*                                                                         *)
(* Every request runs the middleware once.  The state is the shared store  *)
(* (the record map behind its upgradable lock, the two sweep timers, the   *)
(* backing database), the wall clock, and each request's position and      *)
(* locals.                                                                 *)
(*                                                                         *)
(* Time is counted in units of three hours, so Duration::hours(6) is 2.    *)
(* A step that holds a lock reads the clock once.                          *)
(***************************************************************************)
EXTENDS Integers, Sequences, FiniteSets, TLC

\* ------------------------------------------------------------------ bounds
MaxTime == 2                       \* the clock stops advancing here
MaxSequential == 4                 \* requests a run with one worker receives
Reqs == {"r1", "r2"}               \* concurrent requests
Ids == {"x", "y"}                  \* the Uuid space
Keys == {"k"}                      \* keys a handler may put into data
\* the configurations: store.config.lifespan below and above six hours,
\* store.config.memory_lifespan above and below lifespan
Configs == {[lifespan |-> 1, memory_lifespan |-> 2],
            [lifespan |-> 3, memory_lifespan |-> 1]}
\* a run has one worker that receives requests one after the other, or all
\* workers, each of which receives one request
Plans == {[workers |-> {"r1"}, requests |-> MaxSequential],
          [workers |-> Reqs, requests |-> Cardinality(Reqs)]}

\* --------------------------------------------------------------- constants
Hours6 == 2                        \* Duration::hours(6), in units of 3 hours

NoReq == "noreq"
NoId == "noid"
NoCookie == "nocookie"
Garbage == "garbage"               \* a cookie value Uuid::parse_str rejects
CookieValues == Ids \cup {Garbage}

VARIABLES
    now,                          \* Utc::now()
    lifespan, memory_lifespan,    \* store.config
    inner,                        \* store.inner: the record map, id -> AxumSessionData
    mapOwner,                     \* holder of store.inner's upgradable/exclusive guard
    last_expiry_sweep,            \* store.timers
    last_database_expiry_sweep,
    db,                           \* the backing database, id -> AxumSessionData
    pc,                           \* each request's position in the middleware
    id,                           \* id.0 of the request (NoId before it is known)
    isNew,                        \* id.1
    session_data,                 \* the local of line 143: <<>> is None, <<rec>> is Some
    cookieOut,                    \* the cookie added to the response (NoCookie if none)
    outcome,                      \* how the request ended
    plan,                         \* the run's workers and number of requests
    served,                       \* history: requests received so far
    found                         \* history: where resolve looked, the record it found
                                  \* and the calls of retain it made

vars == <<now, lifespan, memory_lifespan, inner, mapOwner, last_expiry_sweep,
          last_database_expiry_sweep, db, pc, id, isNew, session_data,
          cookieOut, outcome, plan, served, found>>

store == <<inner, last_expiry_sweep, last_database_expiry_sweep, db>>
locals == <<id, isNew, session_data, cookieOut, outcome, found>>
config == <<lifespan, memory_lifespan>>
frame == <<now, config, plan, served>>

\* ----------------------------------------------------------------- helpers
\* AxumSessionData { id, data, expires, destroy, autoremove }
AxumSessionData(i, d, e, x, a) ==
    [id |-> i, data |-> d, expires |-> e, destroy |-> x, autoremove |-> a]

\* HashMap::new()
EmptyData == {}

\* the fresh record of lines 68-74 and 123-129
FreshSession(i) ==
    AxumSessionData(i, EmptyData, now + Hours6, FALSE, now + memory_lifespan)

\* Uuid::parse_str(cookie.value())
ParseOk(v) == v \in Ids

\* HashMap::insert
MapInsert(m, k, v) == [j \in DOMAIN m \cup {k} |-> IF j = k THEN v ELSE m[j]]

\* Retain that keeps a record whose autoremove is the current instant
RetainAtDeadline(m) == [j \in {k \in DOMAIN m : m[k].autoremove >= now} |-> m[j]]

\* store_wg.retain(|_k, v| v.lock().autoremove > Utc::now())
Retain(m) == [j \in {k \in DOMAIN m : m[k].autoremove > now} |-> m[j]]

\* AxumSessionData::validate: the record's expires has not passed
Validate(sess) == sess.expires >= now

\* AxumSessionStore::load_session: Ok(Some(rec)), Ok(None) or Err
LoadSession(i, ok) == IF ok /\ i \in DOMAIN db THEN <<db[i]>> ELSE <<>>

\* AxumSessionStore::cleanup: drop the logically expired rows
Cleanup(d) == [j \in {k \in DOMAIN d : d[k].expires >= now} |-> d[j]]

\* AxumSessionStore::store_session: upsert the row keyed by the record's id
StoreSessionRow(d, rec) == MapInsert(d, rec.id, rec)

\* what resolve found: src is "none", "cache", "store" or "new"; rec is <<>> or
\* <<record>>; retains counts the calls of store_wg.retain
NotFound == [src |-> "none", rec |-> <<>>, retains |-> 0]
Found(src, rec) == [src |-> src, rec |-> rec, retains |-> 0]

Set(f, r, v) == [f EXCEPT ![r] = v]

\* -------------------------------------------------------------------- Init
Init ==
    /\ now = 0
    /\ \E c \in Configs : lifespan = c.lifespan /\ memory_lifespan = c.memory_lifespan
    /\ plan \in Plans
    /\ inner = <<>>
    /\ mapOwner = NoReq
    /\ last_expiry_sweep = 0
    /\ last_database_expiry_sweep = 0
    /\ db = <<>>
    /\ pc = [r \in Reqs |-> "idle"]
    /\ id = [r \in Reqs |-> NoId]
    /\ isNew = [r \in Reqs |-> FALSE]
    /\ session_data = [r \in Reqs |-> <<>>]
    /\ cookieOut = [r \in Reqs |-> NoCookie]
    /\ outcome = [r \in Reqs |-> "none"]
    /\ served = 0
    /\ found = [r \in Reqs |-> NotFound]

\* ----------------------------------------------------------------- actions
\* the wall clock advances
Tick ==
    /\ now < MaxTime
    /\ now' = now + 1
    /\ UNCHANGED <<config, plan, served, store, mapOwner, pc, locals>>

\* a worker is free to take a request
Free(r) == r \in plan.workers /\ pc[r] = "idle" /\ served < plan.requests

\* lines 24-27: a request without the Cookies extension is answered 401
Unauthorized(r) ==
    /\ Free(r)
    /\ served' = served + 1
    /\ pc' = Set(pc, r, "done")
    /\ outcome' = Set(outcome, r, "unauthorized")
    /\ UNCHANGED <<now, config, plan, store, mapOwner, id, isNew, session_data,
                   cookieOut, found>>

\* lines 31-35: under the upgradable guard, the cookie's value does not parse:
\* expect panics, which drops the guard
ParsePanic(r) ==
    /\ Free(r)
    /\ mapOwner = NoReq
    /\ \E cookie \in CookieValues : ~ParseOk(cookie)
    /\ served' = served + 1
    /\ pc' = Set(pc, r, "done")
    /\ outcome' = Set(outcome, r, "panic_parse")
    /\ UNCHANGED <<now, config, plan, store, mapOwner, id, isNew, session_data,
                   cookieOut, found>>

\* Revalidate with the destroy flag left out of the staleness test
RevalidateIgnoresDestroy(m) ==
    [m EXCEPT !.data = IF m.expires < now THEN EmptyData ELSE @,
              !.expires = now + lifespan,
              !.autoremove = now + memory_lifespan]

\* Revalidate that clears data only for the destroy flag and lets an expired
\* record keep its data
RevalidateIgnoresExpiry(m) ==
    [m EXCEPT !.data = IF m.destroy THEN EmptyData ELSE @,
              !.expires = now + lifespan,
              !.autoremove = now + memory_lifespan]

\* Revalidate with the staleness test off by one: a record whose expires is
\* the current instant is cleared already
RevalidateEarly(m) ==
    [m EXCEPT !.data = IF m.expires <= now \/ m.destroy THEN EmptyData ELSE @,
              !.expires = now + lifespan,
              !.autoremove = now + memory_lifespan]

\* lines 54-61, on the record m under its lock
Revalidate(m) ==
    [m EXCEPT !.data = IF m.expires < now \/ m.destroy THEN EmptyData ELSE @,
              !.expires = now + lifespan,
              !.autoremove = now + memory_lifespan]

\* lines 31-37, 50-51: the request takes the upgradable guard of store.inner,
\* which one thread holds at a time, and the cookie's id is a key of the map
ResolveHit(r) ==
    /\ Free(r)
    /\ mapOwner = NoReq
    /\ \E cookie \in CookieValues :
          /\ ParseOk(cookie)
          /\ cookie \in DOMAIN inner
          /\ id' = Set(id, r, cookie)
    /\ served' = served + 1
    /\ mapOwner' = r
    /\ pc' = Set(pc, r, "hit")
    /\ UNCHANGED <<now, config, plan, store, isNew, session_data, cookieOut,
                   outcome, found>>

\* lines 52-61, 132: under the guard and the record's lock the record is
\* revalidated and extended; both are dropped at the end of the block
ExtendHit(r) ==
    /\ pc[r] = "hit"
    /\ inner' = [inner EXCEPT ![id[r]] = Revalidate(@)]
    /\ found' = Set(found, r, Found("cache", <<inner[id[r]]>>))
    /\ mapOwner' = NoReq
    /\ pc' = Set(pc, r, "fin")
    /\ UNCHANGED <<frame, last_expiry_sweep, last_database_expiry_sweep,
                   db, id, isNew, session_data, cookieOut, outcome>>

\* ResolveMiss that lets go of the guard of the map before the load
ResolveMissUnlocked(r) ==
    /\ Free(r)
    /\ mapOwner = NoReq
    /\ \E cookie \in CookieValues :
          /\ ParseOk(cookie)
          /\ cookie \notin DOMAIN inner
          /\ id' = Set(id, r, cookie)
    /\ served' = served + 1
    /\ pc' = Set(pc, r, "load")
    /\ UNCHANGED <<now, config, plan, store, mapOwner, isNew, session_data,
                   cookieOut, outcome, found>>

\* lines 31-37, 50-51, 62-65: the cookie's id is not a key of the map; the guard
\* is upgraded (every user of store.inner takes the upgradable guard, so there
\* is no plain reader to wait for) and load_session is called
ResolveMiss(r) ==
    /\ Free(r)
    /\ mapOwner = NoReq
    /\ \E cookie \in CookieValues :
          /\ ParseOk(cookie)
          /\ cookie \notin DOMAIN inner
          /\ id' = Set(id, r, cookie)
    /\ served' = served + 1
    /\ mapOwner' = r
    /\ pc' = Set(pc, r, "load")
    /\ UNCHANGED <<now, config, plan, store, isNew, session_data, cookieOut,
                   outcome, found>>

\* Rehydrate that gives every loaded record new deadlines
RehydrateNewDeadlines(sess) ==
    [sess EXCEPT !.data = IF ~Validate(sess) \/ sess.destroy THEN EmptyData ELSE @,
                 !.expires = now + Hours6,
                 !.autoremove = now + memory_lifespan]

\* lines 76-80, on the record load_session or unwrap_or gave
Rehydrate(sess) ==
    IF ~Validate(sess) \/ sess.destroy
    THEN [sess EXCEPT !.data = EmptyData,
                      !.expires = now + Hours6,
                      !.autoremove = now + memory_lifespan]
    ELSE sess

\* LoadMiss that unwraps the result of load_session: an Err ends the request
LoadMissUnwraps(r) ==
    /\ pc[r] = "load"
    /\ \E ok \in BOOLEAN :
          IF ok
          THEN /\ inner' = MapInsert(inner, id[r],
                      Rehydrate(IF id[r] \in DOMAIN db THEN db[id[r]]
                                                       ELSE FreshSession(id[r])))
               /\ found' = Set(found, r, Found("store", LoadSession(id[r], ok)))
               /\ cookieOut' = Set(cookieOut, r, id[r])
               /\ pc' = Set(pc, r, "fin")
               /\ UNCHANGED outcome
          ELSE /\ outcome' = Set(outcome, r, "panic_load")
               /\ pc' = Set(pc, r, "done")
               /\ UNCHANGED <<inner, found, cookieOut>>
    /\ mapOwner' = NoReq
    /\ UNCHANGED <<frame, last_expiry_sweep, last_database_expiry_sweep,
                   db, id, isNew, session_data>>

\* lines 65-88: load_session returns under the exclusive guard; an Err or a
\* None becomes a fresh record; the cookie is issued and the record inserted
LoadMiss(r) ==
    /\ pc[r] = "load"
    /\ \E ok \in BOOLEAN :
          LET loaded == LoadSession(id[r], ok)
              sess == IF loaded = <<>> THEN FreshSession(id[r]) ELSE loaded[1]
          IN /\ inner' = MapInsert(inner, id[r], Rehydrate(sess))
             /\ found' = Set(found, r, Found("store", loaded))
    /\ cookieOut' = Set(cookieOut, r, id[r])
    /\ mapOwner' = NoReq
    /\ pc' = Set(pc, r, "fin")
    /\ UNCHANGED <<frame, last_expiry_sweep, last_database_expiry_sweep,
                   db, id, isNew, session_data, outcome>>

\* lines 98-106: the map after the sweep throttled by last_expiry_sweep
ExpirySweep(m) == IF last_expiry_sweep <= now THEN Retain(m) ELSE m

\* lines 108-113: the map after the sweep throttled by
\* last_database_expiry_sweep, up to the call of cleanup
DatabaseSweep(m) == IF last_database_expiry_sweep <= now THEN Retain(m) ELSE m

\* lines 103, 113: the calls of retain the two throttles let through
Retains ==
    (IF last_expiry_sweep <= now THEN 1 ELSE 0)
       + (IF last_database_expiry_sweep <= now THEN 1 ELSE 0)

\* InsertNew that issues no cookie
InsertNewNoCookie(r, token, m) ==
    /\ UNCHANGED cookieOut
    /\ inner' = MapInsert(m, token, FreshSession(token))
    /\ mapOwner' = NoReq
    /\ pc' = Set(pc, r, "fin")

\* lines 119-131: the cookie and the fresh record of a new id, and the end of
\* the block that holds the guard
InsertNew(r, token, m) ==
    /\ cookieOut' = Set(cookieOut, r, token)
    /\ inner' = MapInsert(m, token, FreshSession(token))
    /\ mapOwner' = NoReq
    /\ pc' = Set(pc, r, "fin")

\* lines 39-47, 93-113: a Uuid is drawn; if it is a key of the map the loop
\* goes round again, else the guard is upgraded and the two sweeps run, up to
\* the call of cleanup
NewId(r) ==
    \E token \in Ids :
       IF token \in DOMAIN inner
       THEN /\ pc' = Set(pc, r, "gen")
            /\ mapOwner' = r
            /\ UNCHANGED <<store, id, isNew, cookieOut, found>>
       ELSE /\ id' = Set(id, r, token)
            /\ isNew' = Set(isNew, r, TRUE)
            /\ found' = Set(found, r, [src |-> "new", rec |-> <<>>, retains |-> Retains])
            /\ last_expiry_sweep' = IF last_expiry_sweep <= now
                                    THEN now + memory_lifespan
                                    ELSE last_expiry_sweep
            /\ UNCHANGED <<db, last_database_expiry_sweep>>
            /\ IF last_database_expiry_sweep <= now
               THEN /\ inner' = DatabaseSweep(ExpirySweep(inner))
                    /\ mapOwner' = r
                    /\ pc' = Set(pc, r, "cleanup")
                    /\ UNCHANGED cookieOut
               ELSE InsertNew(r, token, ExpirySweep(inner))

\* lines 31-33, 38-48, 90-131: the request carries no cookie
ResolveNew(r) ==
    /\ Free(r)
    /\ mapOwner = NoReq
    /\ served' = served + 1
    /\ NewId(r)
    /\ UNCHANGED <<now, config, plan, session_data, outcome>>

\* lines 39-45: a further turn of the loop, after a collision
GenerateId(r) ==
    /\ pc[r] = "gen"
    /\ NewId(r)
    /\ UNCHANGED <<frame, session_data, outcome>>

\* lines 114-131: cleanup returns; an Err panics (unwrap), which drops the
\* guards and leaves the timer as it was
CleanupStore(r) ==
    /\ pc[r] = "cleanup"
    /\ \E ok \in BOOLEAN :
          IF ok
          THEN /\ db' = Cleanup(db)
               /\ last_database_expiry_sweep' = now + lifespan
               /\ InsertNew(r, id[r], inner)
               /\ UNCHANGED outcome
          ELSE /\ outcome' = Set(outcome, r, "panic_cleanup")
               /\ pc' = Set(pc, r, "done")
               /\ mapOwner' = NoReq
               /\ UNCHANGED <<db, last_database_expiry_sweep, inner, cookieOut>>
    /\ UNCHANGED <<frame, last_expiry_sweep, id, isNew, session_data, found>>

\* lines 143-150: read the record back from the map under a fresh guard
ReadBack(r) ==
    /\ pc[r] = "fin"
    /\ mapOwner = NoReq
    /\ session_data' = Set(session_data, r,
                           IF id[r] \in DOMAIN inner THEN <<inner[id[r]]>> ELSE <<>>)
    /\ pc' = Set(pc, r, "save")
    /\ found' = Set(found, r, NotFound)
    /\ UNCHANGED <<frame, store, mapOwner, id, isNew, cookieOut, outcome>>

\* lines 152-154: store_session of the copy; an Err panics (unwrap)
StoreSession(r) ==
    /\ pc[r] = "save"
    /\ IF session_data[r] = <<>>
       THEN /\ pc' = Set(pc, r, "next")
            /\ UNCHANGED <<db, outcome>>
       ELSE \E ok \in BOOLEAN :
               IF ok
               THEN /\ db' = StoreSessionRow(db, session_data[r][1])
                    /\ pc' = Set(pc, r, "next")
                    /\ UNCHANGED outcome
               ELSE /\ outcome' = Set(outcome, r, "panic_save")
                    /\ pc' = Set(pc, r, "done")
                    /\ UNCHANGED db
    /\ UNCHANGED <<frame, inner, last_expiry_sweep,
                   last_database_expiry_sweep, mapOwner, id, isNew,
                   session_data, cookieOut, found>>

\* what a downstream handler does to the record of its session
Mutations == {"insert", "destroy"}
Mutate(sess, m) ==
    CASE m = "insert"  -> [sess EXCEPT !.data = Keys]
      [] m = "destroy" -> [sess EXCEPT !.destroy = TRUE]

\* line 156: next.run(req), the downstream handler; it may change its
\* session's record through the handle, under the map guard
RunNext(r) ==
    /\ pc[r] = "next"
    /\ \/ UNCHANGED inner
       \/ /\ mapOwner = NoReq
          /\ id[r] \in DOMAIN inner
          /\ \E m \in Mutations :
                inner' = [inner EXCEPT ![id[r]] = Mutate(@, m)]
    /\ pc' = Set(pc, r, "done")
    /\ outcome' = Set(outcome, r, "ok")
    /\ session_data' = Set(session_data, r, <<>>)
    /\ UNCHANGED <<frame, last_expiry_sweep, last_database_expiry_sweep,
                   db, mapOwner, id, isNew, cookieOut, found>>

\* the response has gone out (or the panic has unwound); the worker is free
Finish(r) ==
    /\ pc[r] = "done"
    /\ pc' = Set(pc, r, "idle")
    /\ id' = Set(id, r, NoId)
    /\ isNew' = Set(isNew, r, FALSE)
    /\ session_data' = Set(session_data, r, <<>>)
    /\ cookieOut' = Set(cookieOut, r, NoCookie)
    /\ outcome' = Set(outcome, r, "none")
    /\ found' = Set(found, r, NotFound)
    /\ UNCHANGED <<frame, store, mapOwner>>

Next ==
    \/ Tick
    \/ \E r \in Reqs : Unauthorized(r)
    \/ \E r \in Reqs : ParsePanic(r)
    \/ \E r \in Reqs : ResolveHit(r)
    \/ \E r \in Reqs : ExtendHit(r)
    \/ \E r \in Reqs : ResolveMiss(r)
    \/ \E r \in Reqs : LoadMiss(r)
    \/ \E r \in Reqs : ResolveNew(r)
    \/ \E r \in Reqs : GenerateId(r)
    \/ \E r \in Reqs : CleanupStore(r)
    \/ \E r \in Reqs : ReadBack(r)
    \/ \E r \in Reqs : StoreSession(r)
    \/ \E r \in Reqs : RunNext(r)
    \/ \E r \in Reqs : Finish(r)

Spec == Init /\ [][Next]_vars

\* the store after two requests at time 0, one with cookie x and one with
\* cookie y, neither cached nor stored before: each took the miss path (lines
\* 65-88) and saved its record (lines 143-154)
WarmStore ==
    /\ now = 0
    /\ inner = [i \in Ids |-> FreshSession(i)]
    /\ db = inner
    /\ last_expiry_sweep = 0
    /\ last_database_expiry_sweep = 0
    /\ mapOwner = NoReq
    /\ \A r \in Reqs : pc[r] = "idle"

\* a run that starts with that store and gives every worker one request
InitWarm ==
    /\ \E c \in Configs : lifespan = c.lifespan /\ memory_lifespan = c.memory_lifespan
    /\ plan = [workers |-> Reqs, requests |-> Cardinality(Reqs)]
    /\ pc = [r \in Reqs |-> "idle"]
    /\ id = [r \in Reqs |-> NoId]
    /\ isNew = [r \in Reqs |-> FALSE]
    /\ session_data = [r \in Reqs |-> <<>>]
    /\ cookieOut = [r \in Reqs |-> NoCookie]
    /\ outcome = [r \in Reqs |-> "none"]
    /\ served = 0
    /\ found = [r \in Reqs |-> NotFound]
    /\ WarmStore

\* the runs of Spec and the runs that start with the warm store
SpecWarm == (Init \/ InitWarm) /\ [][Next]_vars

\* Spec with the scheduling the program runs under: a request that can take
\* its next step takes it (the runtime polls a task that is ready, a call of
\* the store returns); the guard of the map, which parking_lot hands over
\* fairly, is not withheld for ever from a request that keeps finding it free;
\* and the loop of lines 39-45 does not draw taken ids for ever while a free
\* one exists.  Nothing makes a request arrive or the clock advance.
FairSpec ==
    /\ Spec
    /\ \A r \in Reqs :
          /\ WF_vars(ExtendHit(r))
          /\ WF_vars(LoadMiss(r))
          /\ SF_vars(GenerateId(r) /\ isNew'[r])
          /\ WF_vars(CleanupStore(r))
          /\ SF_vars(ReadBack(r))
          /\ WF_vars(StoreSession(r))
          /\ WF_vars(RunNext(r))
          /\ WF_vars(Finish(r))

\* ------------------------------------------------------------------ claims
\* the step in which request r's resolve found a record, in the map or in
\* the store
Resolved(r) == found'[r] # found[r] /\ found'[r].rec # <<>>
WasFound(r) == found'[r].rec[1]

\* C1: a mutation the downstream handler makes to its session's record is
\* written to the store by the same request: the record the request saved is
\* the in-memory record as the handler leaves it.
C1_HandlerMutationSaved ==
    [][\A r \in Reqs :
          (pc[r] = "next" /\ pc'[r] = "done" /\ inner' # inner)
             => session_data[r] = <<inner'[id[r]]>>]_vars

\* C2: the record a request resolved is still in the map when its finalize
\* step reads it, so every request that resolved a session saves a record.
C2_ResolvedRecordSaved ==
    \A r \in Reqs : pc[r] = "save" => session_data[r] # <<>>

\* C3: a record with destroy set, found in the map or loaded from the store,
\* has empty data right after the resolve, whatever its data was.
C3_DestroyedIsCleared ==
    [][\A r \in Reqs :
          (Resolved(r) /\ WasFound(r).destroy)
             => inner'[id'[r]].data = EmptyData]_vars

C3_Witness ==
    \E r \in Reqs :
       /\ pc[r] = "fin"
       /\ found[r].src = "cache"
       /\ found[r].rec[1].destroy
       /\ found[r].rec[1].data # EmptyData
       /\ id[r] \in DOMAIN inner
       /\ inner[id[r]].data = EmptyData

\* C4: a resolve that finds in the map a record whose expires has passed
\* leaves it with empty data, expires = now + lifespan and
\* autoremove = now + memory_lifespan.
C4_ExpiredIsReset ==
    [][\A r \in Reqs :
          (Resolved(r) /\ found'[r].src = "cache" /\ WasFound(r).expires < now)
             => /\ inner'[id'[r]].data = EmptyData
                /\ inner'[id'[r]].expires = now + lifespan
                /\ inner'[id'[r]].autoremove = now + memory_lifespan]_vars

C4_Witness ==
    \E r \in Reqs :
       /\ pc[r] = "fin"
       /\ found[r].src = "cache"
       /\ found[r].rec[1].expires < now
       /\ ~found[r].rec[1].destroy
       /\ found[r].rec[1].data # EmptyData
       /\ id[r] \in DOMAIN inner
       /\ inner[id[r]] = [found[r].rec[1] EXCEPT !.data = EmptyData,
                                                 !.expires = now + lifespan,
                                                 !.autoremove = now + memory_lifespan]

\* C5: a resolve that finds a record with destroy unset and expires not
\* passed, in the map or in the store, leaves its data as it was; and the data
\* of a record of the map changes only in a step of a request for that very
\* id: its handler, or its resolve of a stale record.
C5_NoResetBeforeStale ==
    [][/\ \A r \in Reqs :
             (Resolved(r) /\ ~WasFound(r).destroy /\ WasFound(r).expires >= now)
                => inner'[id'[r]].data = WasFound(r).data
       /\ \A i \in DOMAIN inner \cap DOMAIN inner' :
             inner'[i].data # inner[i].data
                => \E r \in Reqs :
                      /\ id'[r] = i
                      /\ \/ pc[r] = "next"
                         \/ /\ Resolved(r)
                            /\ inner[i].destroy \/ inner[i].expires < now]_vars

C5_Witness ==
    \E r \in Reqs :
       /\ pc[r] = "fin"
       /\ found[r].src = "cache"
       /\ ~found[r].rec[1].destroy
       /\ found[r].rec[1].expires = now
       /\ found[r].rec[1].data # EmptyData
       /\ id[r] \in DOMAIN inner
       /\ inner[id[r]].data = found[r].rec[1].data

\* C6: a record saved by finalize, evicted from the map and loaded again
\* while destroy is unset and its stored expires has not passed is inserted
\* with the data and the expires that were saved.
C6_RoundTrip ==
    [][\A r \in Reqs :
          (/\ Resolved(r)
           /\ found'[r].src = "store"
           /\ ~db[id[r]].destroy
           /\ db[id[r]].expires >= now)
             => /\ inner'[id[r]].data = db[id[r]].data
                /\ inner'[id[r]].expires = db[id[r]].expires]_vars

C6_Witness ==
    \E r \in Reqs :
       /\ pc[r] = "fin"
       /\ found[r].src = "store"
       /\ found[r].rec # <<>>
       /\ ~found[r].rec[1].destroy
       /\ found[r].rec[1].expires >= now
       /\ found[r].rec[1].data # EmptyData
       /\ found[r].rec[1] = db[id[r]]
       /\ id[r] \in DOMAIN inner
       /\ inner[id[r]].data = db[id[r]].data
       /\ inner[id[r]].expires = db[id[r]].expires

C8_DeadlinesNeverBackward ==
    [][\A r \in Reqs :
          (/\ Resolved(r)
           /\ found'[r].src = "cache"
           /\ ~WasFound(r).destroy
           /\ WasFound(r).expires >= now)
             => /\ inner'[id'[r]].expires >= WasFound(r).expires
                /\ inner'[id'[r]].autoremove >= WasFound(r).autoremove]_vars

\* C9: a request whose cookie is not a valid identifier is not fatal: no
\* request ends in the panic of the parse.
C9_MalformedNotFatal ==
    \A r \in Reqs : outcome[r] # "panic_parse"

\* C10: a failing store does not fail the request: no request is aborted by
\* an error of save or of cleanup, every request reaches the handler.
C10_StoreFailureNotFatal ==
    \A r \in Reqs : outcome[r] \notin {"panic_save", "panic_cleanup"}

\* C11: on the miss path an error of load_session ends as an absent row does:
\* the request goes on to finalize, the cookie carries the requested id, and
\* the map holds under that id a record with empty data and destroy unset.
C11_LoadErrorIsAbsent ==
    [][\A r \in Reqs :
          (pc[r] = "load" /\ pc'[r] # "load")
             => /\ pc'[r] = "fin"
                /\ outcome'[r] = "none"
                /\ cookieOut'[r] = id[r]
                /\ id[r] \in DOMAIN inner'
                /\ found'[r].rec = <<>>
                      => /\ inner'[id[r]].id = id[r]
                         /\ inner'[id[r]].data = EmptyData
                         /\ ~inner'[id[r]].destroy
                         /\ inner'[id[r]] = FreshSession(id[r])]_vars

\* the store holds a row with data for the id, the load failed all the same
C11_Witness ==
    \E r \in Reqs :
       /\ pc[r] = "fin"
       /\ found[r] = Found("store", <<>>)
       /\ id[r] \in DOMAIN db
       /\ db[id[r]].data # EmptyData
       /\ cookieOut[r] = id[r]
       /\ id[r] \in DOMAIN inner
       /\ inner[id[r]] = FreshSession(id[r])
       /\ mapOwner = NoReq

\* C12: while a request for one cached id is in its resolve step, a request
\* for another cached id is not kept waiting: whenever a worker is free and
\* the map holds an id other than the one being resolved on the hit path, a
\* request for that other id can take its resolve step at once.
C12_DifferentIdsNeverBlock ==
    \A r1 \in Reqs : \A r2 \in Reqs \ {r1} :
       (/\ pc[r2] = "hit"
        /\ Free(r1)
        /\ DOMAIN inner \ {id[r2]} # {})
          => ENABLED ResolveHit(r1)

\* C13: the sweep of the map is throttled by last_expiry_sweep alone: a
\* resolve on the new-id path calls retain only when last_expiry_sweep has been
\* reached, and then moves last_expiry_sweep to now + memory_lifespan, so two
\* such resolves less than memory_lifespan apart make one sweep between them.
C13_SweepThrottled ==
    [][\A r \in Reqs :
          (found'[r] # found[r] /\ found'[r].retains > 0)
             => /\ last_expiry_sweep <= now
                /\ last_expiry_sweep' = now + memory_lifespan]_vars

\* C14: a sweep of the map removes the records whose autoremove has been
\* reached and no other, leaves every record it keeps as it was, and removes
\* no row of the store; and a record leaves the map in a sweep only.
C14_SweepRemovesStaleOnly ==
    [][/\ \A r \in Reqs :
             (found'[r] # found[r] /\ found'[r].retains > 0)
                => /\ \A i \in DOMAIN inner :
                         IF inner[i].autoremove <= now
                         THEN i \notin DOMAIN inner'
                         ELSE i \in DOMAIN inner' /\ inner'[i] = inner[i]
                   /\ db' = db
       /\ (DOMAIN inner \ DOMAIN inner' # {})
             => \E r \in Reqs : found'[r] # found[r] /\ found'[r].retains > 0]_vars

\* a new-id request has swept, and a record that was saved with an autoremove
\* now reached is no longer in the map
C14_Witness ==
    \E r \in Reqs :
       /\ pc[r] \in {"cleanup", "fin"}
       /\ found[r].src = "new"
       /\ found[r].retains > 0
       /\ \E i \in DOMAIN db \ DOMAIN inner :
             /\ i # id[r]
             /\ db[i].autoremove <= now
             /\ db[i].data # EmptyData

\* C15: a request that has a call of the store in progress does not hold the
\* guard of the map, unless the call is the load_session of the miss path:
\* cleanup and store_session run with the map unlocked.
C15_StoreCallsOutsideMapLock ==
    \A r \in Reqs : pc[r] \in {"cleanup", "save"} => mapOwner # r

\* C16: a record loaded on the miss path with destroy set or expires passed
\* is inserted as a fresh one: empty data, destroy unset, deadlines that lie
\* ahead, so that the next resolve of the id has nothing to clear.
C16_InvalidLoadedIsFresh ==
    [][\A r \in Reqs :
          (/\ Resolved(r)
           /\ found'[r].src = "store"
           /\ WasFound(r).destroy \/ WasFound(r).expires < now)
             => /\ inner'[id[r]].data = EmptyData
                /\ ~inner'[id[r]].destroy
                /\ inner'[id[r]].expires >= now
                /\ inner'[id[r]].autoremove = now + memory_lifespan]_vars

\* C17: a record created fresh, for a new id or for a cookie's id that the
\* store has no record of, has expires = now + lifespan and
\* autoremove = now + memory_lifespan, whatever the configuration.
C17_FreshDeadlines ==
    [][\A r \in Reqs :
          (\/ isNew'[r] /\ cookieOut'[r] # cookieOut[r]
           \/ pc[r] = "load" /\ pc'[r] = "fin" /\ found'[r].rec = <<>>)
             => /\ inner'[id'[r]].expires = now + lifespan
                /\ inner'[id'[r]].autoremove = now + memory_lifespan]_vars

\* C18: cleanup is called only by a new-id request and only when
\* last_database_expiry_sweep has been reached, and a cleanup that succeeds
\* moves that timer to now + lifespan; the sweep of the store is decided apart
\* from the sweep of the map: it leaves last_expiry_sweep alone and calls no
\* retain of its own, so a new-id resolve calls retain once if
\* last_expiry_sweep has been reached and not at all otherwise; and a step of
\* a request on the hit or the miss path changes no timer, removes no record
\* from the map and no row from the store.
C18_StoreSweepApart ==
    [][\A r \in Reqs :
          /\ (pc[r] # "cleanup" /\ pc'[r] = "cleanup")
                => /\ isNew'[r]
                   /\ last_database_expiry_sweep <= now
          /\ (pc[r] = "cleanup" /\ pc'[r] = "fin")
                => /\ last_database_expiry_sweep' = now + lifespan
                   /\ last_expiry_sweep' = last_expiry_sweep
          /\ (found'[r] # found[r] /\ found'[r].src = "new")
                => found'[r].retains = IF last_expiry_sweep <= now THEN 1 ELSE 0
          /\ (pc'[r] # pc[r] /\ ~isNew'[r] /\ pc'[r] # "gen")
                => /\ last_expiry_sweep' = last_expiry_sweep
                   /\ last_database_expiry_sweep' = last_database_expiry_sweep
                   /\ DOMAIN inner \subseteq DOMAIN inner'
                   /\ DOMAIN db \subseteq DOMAIN db']_vars

\* C19: an insert into the map never replaces an entry: the key of a record
\* loaded on the miss path, and the key of a new id, is not in the map in the
\* step that inserts it; and two requests are never both loading, so of two
\* concurrent requests with the same uncached id one loads and inserts and
\* the other finds the record in the map.
C19_InsertNeverReplaces ==
    [][\A r \in Reqs :
          /\ (pc[r] = "load" /\ pc'[r] = "fin") => id[r] \notin DOMAIN inner
          /\ (isNew'[r] /\ pc[r] # "fin" /\ pc'[r] = "fin")
                => id'[r] \notin DOMAIN inner
          /\ \A q \in Reqs \ {r} : ~(pc[r] = "load" /\ pc[q] = "load")
          /\ (pc[r] = "hit" /\ pc'[r] = "fin")
                => /\ id[r] \in DOMAIN inner
                   /\ found'[r].rec = <<inner[id[r]]>>]_vars

\* two requests in flight with the same id: one loaded and inserted, the
\* other found that record in the map
C19_Witness ==
    \E r \in Reqs : \E q \in Reqs \ {r} :
       /\ id[r] = id[q]
       /\ pc[r] = "fin"
       /\ found[r].src = "store"
       /\ pc[q] = "fin"
       /\ found[q].src = "cache"
       /\ found[q].rec[1].id = id[r]

\* C20: no request waits for ever.  A request holds the guard of the map only
\* inside resolve, never while it saves or runs the handler; the holder of
\* the guard always has a step it can take, so no set of requests wait for
\* each other; and a request that has started ends only after it has finished
\* resolve and finalize and has run the handler.
C20_StartedRequestsFinish ==
    /\ \A r \in Reqs : mapOwner = r <=> pc[r] \in {"hit", "load", "gen", "cleanup"}
    /\ \A r \in Reqs :
          mapOwner = r
             => ENABLED (ExtendHit(r) \/ LoadMiss(r) \/ GenerateId(r) \/ CleanupStore(r))
    /\ \A r \in Reqs : pc[r] = "done" => outcome[r] \in {"ok", "unauthorized"}

====
